---- MODULE Spec2Model ----
(***************************************************************************)
(* Exchange-rate resolution and caching of ValutaTrade Hub.                *)
(*                                                                         *)
(*   core/usecases.py   get_rate and its helpers (resolver)                *)
(*   core/utils.py      load_json / save_json on data/rates.json           *)
(*   parser_service/    RatesUpdater.run_update and RatesStorage           *)
(*                                                                         *)
(* Time is a discrete clock `now`; every datetime.now() of the code reads  *)
(* it.  A float rate is an exact fraction <<numerator, denominator>>, so   *)
(* IEEE rounding is not modelled.  A file is absent, torn (opened for      *)
(* writing and not yet completely written: not parseable as JSON) or holds *)
(* a complete JSON document.                                               *)
(***************************************************************************)
EXTENDS Integers, Sequences, FiniteSets, TLC

VARIABLES
    now,    \* the wall clock read by datetime.now()
    fs,     \* the file system: path -> file
    gr,     \* the frame of the get_rate call in progress
    last,   \* what the most recent completed get_rate call did and returned
    prev,   \* the same for the call before it
    up,     \* the frame of the run_update call in progress
    res,    \* what run_update returned or raised, once it has ended
    save,   \* the cache file before the latest cache save, and the document saved
    cycles, \* run_update calls started so far
    race,   \* two processes inside update_rates_cache at the same time
    pf      \* the current portfolio in memory, and what the last calls on it did

vars == <<now, fs, gr, last, prev, up, res, save, cycles, race, pf>>

resolveVars == <<gr, last, prev>>
updateVars == <<up, res, save, cycles>>
raceVars == <<race>>
portfolioVars == <<pf>>

(* ------------------------------ bounds -------------------------------- *)

\* The clock stops here.
MaxTime == 2

\* rates_ttl_seconds of the configuration, in clock ticks (the default of
\* infra/settings.py is 300 seconds; config.json may set any value).
rates_ttl_seconds == 2

\* run_update is started at most this many times.
MaxCycles == 1

\* Arguments given to get_rate: a registered code, a registered code in lower
\* case, and a code the registry does not know.
ArgCodes == {"USD", "btc", "DOGE"}

(* ------------------------------ rates --------------------------------- *)

RECURSIVE Gcd(_, _)
Gcd(a, b) == IF b = 0 THEN a ELSE Gcd(b, a % b)

\* A fraction in lowest terms.
Frac(n, d) == LET g == Gcd(n, d) IN <<n \div g, d \div g>>

FracMul(x, y) == Frac(x[1] * y[1], x[2] * y[2])

\* 1.0 / x
FracInv(x) == <<x[2], x[1]>>

One == <<1, 1>>
NoRate == <<0, 1>>
NoTime == -1

(* ------------------------------ files --------------------------------- *)

\* core/utils.py: DATA_DIR / "rates.json", DATA_DIR three levels above utils.py
RATES_FILE == "data/rates.json"

\* core/utils.py: DATA_DIR / "portfolios.json"
PORTFOLIOS_FILE == "data/portfolios.json"

\* ParserConfig.get_rates_file_path: RATES_FILE_PATH under the directory four
\* levels above parser_service/config.py, one above DATA_DIR's parent.
PARSER_RATES_FILE == "../data/rates.json"

AbsentFile == [st |-> "absent", doc |-> <<>>]
TornFile == [st |-> "torn", doc |-> <<>>]

\* A file whose bytes are not UTF-8 text (damaged on disk, or written by
\* another program in another encoding).
GarbledFile == [st |-> "garbled", doc |-> <<>>]
JsonFile(d) == [st |-> "ok", doc |-> d]

Put_KeepFirst(d, k, v) ==
    [x \in DOMAIN d \cup {k} |-> IF x \in DOMAIN d THEN d[x] ELSE v]

\* d[k] = v in a Python dict
Put(d, k, v) == [x \in DOMAIN d \cup {k} |-> IF x = k THEN v ELSE d[x]]

(* ---------------------------- currencies ------------------------------ *)

\* The keys of _CURRENCIES after _initialize_currencies.
Registry == {"USD", "EUR", "RUB", "BTC", "ETH"}

\* code.strip().upper()
Normalize(code) ==
    CASE code = "btc" -> "BTC"
      [] code = "usd" -> "USD"
      [] OTHER -> code

IsRegistered_Always(code) == TRUE

\* get_currency: code in _CURRENCIES
IsRegistered(code) == code \in Registry

IsSameCurrency_Skipped(from_currency, to_currency) == FALSE

\* get_rate: if from_currency == to_currency
IsSameCurrency(from_currency, to_currency) == from_currency = to_currency

(* ------------------------------ the stub ------------------------------ *)

fallback_rates_NoCrypto ==
    [c \in {"USD", "EUR", "RUB"} |->
        CASE c = "USD" -> 1000
          [] c = "EUR" -> 1100
          [] c = "RUB" -> 11]

\* fallback_rates of _get_rate_from_stub, in thousandths of a dollar.
fallback_rates ==
    [c \in Registry |->
        CASE c = "USD" -> 1000
          [] c = "EUR" -> 1100
          [] c = "BTC" -> 45000000
          [] c = "ETH" -> 3000000
          [] c = "RUB" -> 11]

\* _get_rate_from_stub: the rate, or ValueError.
GetRateFromStub(from_currency, to_currency) ==
    IF from_currency = to_currency
    THEN [ok |-> TRUE, rate |-> One]
    ELSE IF from_currency \in DOMAIN fallback_rates
            /\ to_currency \in DOMAIN fallback_rates
         THEN [ok |-> TRUE,
               rate |-> FracMul(Frac(fallback_rates[from_currency], 1000),
                                FracInv(Frac(fallback_rates[to_currency], 1000)))]
         ELSE [ok |-> FALSE, rate |-> NoRate]

(* ----------------------------- get_rate ------------------------------- *)

\* f"{from_currency}_{to_currency}"
RateKey(from_currency, to_currency) == from_currency \o "_" \o to_currency

\* rate_key in rates_data and "rate" in rates_data[rate_key]
HasRate(rates_data, key) == key \in DOMAIN rates_data

IsRateFresh_Inclusive(updated_at) == now - updated_at <= rates_ttl_seconds

IsRateFresh_Never(updated_at) == FALSE

\* _is_rate_fresh: age < timedelta(seconds=max_age_seconds)
IsRateFresh(updated_at) == now - updated_at < rates_ttl_seconds

\* get_rate: reverse_rate = 1.0 / rate if rate != 0 else 0.0
ReverseRate(rate) == IF rate[1] # 0 THEN FracInv(rate) ELSE NoRate

\* What a get_rate call has done so far: its arguments after get_currency,
\* what it found at the lookup, and what it returns or raises at the end.
\*   kind      "ok" (a dict is returned) or the exception raised
\*   via       "identity", "cache", "stub" or "inverse"
\*   read      the cache file was opened for reading, or looked for
\*   created   load_json created the file
\*   found/age the entry rate_key was in rates_data, and its age at the lookup
\*   computed  calls of _get_rate_from_stub
\*   saves     calls of save_json
\*   loaded    rates_data as load_json returned it
\*   aggregated   the entry that the updater's cache file held for rate_key
\*                when the call began, if any
NoCall ==
    [kind |-> "none", from |-> "", to |-> "", rate |-> NoRate,
     updated_at |-> NoTime, reverse_rate |-> NoRate, via |-> "",
     persisted_at |-> NoTime, started |-> NoTime, read |-> FALSE,
     created |-> FALSE, found |-> FALSE, age |-> 0, computed |-> 0,
     saves |-> 0, loaded |-> <<>>, aggregated |-> <<>>]

\* The frame of get_rate: where it is, the call so far, and rates_data.
IdleFrame == [pc |-> "idle", call |-> NoCall, data |-> <<>>]

\* The call ends (returns or raises): its record becomes `last`.
Finish(call) ==
    /\ last' = call
    /\ prev' = last
    /\ gr' = IdleFrame

WithRate_Mirrored(rates_data, from_currency, to_currency, rate, at) ==
    Put(Put(Put(rates_data, RateKey(from_currency, to_currency),
                [rate |-> rate, updated_at |-> at]),
            RateKey(to_currency, from_currency),
            [rate |-> FracInv(rate), updated_at |-> at]),
        "last_refresh", at)

\* _update_rate_in_cache: rates_data[rate_key] = {...} and
\* rates_data["last_refresh"] = now.isoformat()
WithRate(rates_data, from_currency, to_currency, rate, at) ==
    Put(Put(rates_data, RateKey(from_currency, to_currency),
            [rate |-> rate, updated_at |-> at]),
        "last_refresh", at)

\* _update_rate_in_cache as far as save_json's open(file_path, "w"): the entry
\* and last_refresh are set in memory, and the file is truncated.
UpdateRateInCache(call, rate, rates_data, via) ==
    LET data == WithRate(rates_data, call.from, call.to, rate, now)
    IN  /\ fs' = [fs EXCEPT ![RATES_FILE] = TornFile]
        /\ gr' = [pc |-> "writing",
                  call |-> [call EXCEPT !.rate = rate, !.via = via,
                                        !.persisted_at = now,
                                        !.saves = @ + 1],
                  data |-> data]
        /\ UNCHANGED <<last, prev>>

\* get_rate from the cache lookup on, with rates_data loaded.
Resolve(c, rates_data) ==
    LET rate_key == RateKey(c.from, c.to)
        reverse_key == RateKey(c.to, c.from)
        found == HasRate(rates_data, rate_key)
        needs_update ==
            ~(found /\ IsRateFresh(rates_data[rate_key].updated_at))
        call == [c EXCEPT !.read = TRUE, !.found = found,
                          !.loaded = rates_data,
                          !.age = IF found
                                  THEN now - rates_data[rate_key].updated_at
                                  ELSE 0]
        stub == GetRateFromStub(c.from, c.to)
    IN  IF ~needs_update
        THEN /\ Finish([call EXCEPT
                    !.kind = "ok", !.via = "cache",
                    !.rate = rates_data[rate_key].rate,
                    !.updated_at = rates_data[rate_key].updated_at,
                    !.reverse_rate = ReverseRate(rates_data[rate_key].rate)])
             /\ UNCHANGED fs
        ELSE IF stub.ok
        THEN UpdateRateInCache([call EXCEPT !.computed = @ + 1], stub.rate,
                               rates_data, "stub")
        ELSE IF HasRate(rates_data, reverse_key)
                /\ IsRateFresh(rates_data[reverse_key].updated_at)
        THEN UpdateRateInCache([call EXCEPT !.computed = @ + 1],
                               FracInv(rates_data[reverse_key].rate),
                               rates_data, "inverse")
        ELSE /\ Finish([call EXCEPT !.kind = "ApiRequestError",
                                    !.computed = @ + 1])
             /\ UNCHANGED fs

\* The entry for rate_key in the file update_rates_cache saves, as a sequence
\* of at most one entry.
Aggregated(rate_key) ==
    IF fs[PARSER_RATES_FILE].st = "ok"
       /\ rate_key \in DOMAIN fs[PARSER_RATES_FILE].doc.pairs
    THEN <<fs[PARSER_RATES_FILE].doc.pairs[rate_key]>>
    ELSE <<>>

\* get_rate(a, b) from its entry to the end of load_json.
GetRate(a, b) ==
    /\ UNCHANGED <<updateVars, raceVars, portfolioVars>>
    /\ gr.pc = "idle"
    /\ UNCHANGED now
    /\ LET from_currency == Normalize(a)
           to_currency == Normalize(b)
           call == [NoCall EXCEPT !.from = from_currency,
                                  !.to = to_currency, !.started = now,
                                  !.aggregated =
                                      Aggregated(RateKey(from_currency,
                                                         to_currency))]
       IN  IF ~IsRegistered(from_currency) \/ ~IsRegistered(to_currency)
           THEN /\ Finish([call EXCEPT !.kind = "CurrencyNotFoundError"])
                /\ UNCHANGED fs
           ELSE IF IsSameCurrency(from_currency, to_currency)
           THEN /\ Finish([call EXCEPT
                       !.kind = "ok", !.via = "identity", !.rate = One,
                       !.updated_at = now, !.reverse_rate = One])
                /\ UNCHANGED fs
           ELSE CASE fs[RATES_FILE].st = "absent" ->
                     \* load_json: save_json(file_path, {}) opens the file
                     /\ fs' = [fs EXCEPT ![RATES_FILE] = TornFile]
                     /\ gr' = [pc |-> "creating",
                               call |-> [call EXCEPT !.read = TRUE,
                                                     !.created = TRUE,
                                                     !.saves = @ + 1],
                               data |-> <<>>]
                     /\ UNCHANGED <<last, prev>>
                  [] fs[RATES_FILE].st = "torn" ->
                     \* json.load raises json.JSONDecodeError
                     /\ Finish([call EXCEPT !.kind = "JSONDecodeError",
                                            !.read = TRUE])
                     /\ UNCHANGED fs
                  [] fs[RATES_FILE].st = "ok" ->
                     Resolve(call, fs[RATES_FILE].doc)

\* load_json on an absent file: json.dump of the default {} completes.
LoadJsonCreate ==
    /\ UNCHANGED <<updateVars, raceVars, portfolioVars>>
    /\ gr.pc = "creating"
    /\ fs' = [fs EXCEPT ![RATES_FILE] = JsonFile(<<>>)]
    /\ gr' = [gr EXCEPT !.pc = "loaded"]
    /\ UNCHANGED <<now, last, prev>>

\* get_rate goes on with the default {} that load_json returned.
GetRateLoaded ==
    /\ UNCHANGED <<updateVars, raceVars, portfolioVars>>
    /\ gr.pc = "loaded"
    /\ UNCHANGED now
    /\ Resolve(gr.call, gr.data)

\* save_json: json.dump completes and the file is closed.
SaveJsonWrite ==
    /\ UNCHANGED <<updateVars, raceVars, portfolioVars>>
    /\ gr.pc = "writing"
    /\ fs' = [fs EXCEPT ![RATES_FILE] = JsonFile(gr.data)]
    /\ gr' = [gr EXCEPT !.pc = "written"]
    /\ UNCHANGED <<now, last, prev>>

\* updated_at_str = datetime.now().isoformat() after the write, and the return.
GetRateReturn ==
    /\ UNCHANGED <<updateVars, raceVars, portfolioVars>>
    /\ gr.pc = "written"
    /\ Finish([gr.call EXCEPT
           !.kind = "ok", !.updated_at = now,
           !.reverse_rate = ReverseRate(gr.call.rate)])
    /\ UNCHANGED <<now, fs>>

\* The process is killed during a get_rate call: memory is lost, files stay.
CrashResolve ==
    /\ UNCHANGED <<updateVars, raceVars, portfolioVars>>
    /\ gr.pc # "idle"
    /\ gr' = IdleFrame
    /\ last' = NoCall
    /\ prev' = NoCall
    /\ UNCHANGED <<now, fs>>

Tick ==
    /\ now < MaxTime
    /\ now' = now + 1
    /\ UNCHANGED <<fs, resolveVars, updateVars, raceVars, portfolioVars>>

(* --------------------------- parser_service --------------------------- *)

\* ParserConfig.get_history_file_path
HISTORY_FILE == "../data/exchange_rates.json"

\* Path.with_suffix(".tmp")
WithSuffixTmp(path) ==
    CASE path = PARSER_RATES_FILE -> "../data/rates.tmp"
      [] path = HISTORY_FILE -> "../data/exchange_rates.tmp"
      [] OTHER -> path

TempFile_InPlace(path) == path

\* temp_file of _save_rates_cache_atomic and _save_history_atomic
TempFile(path) == WithSuffixTmp(path)

Paths ==
    {RATES_FILE, PORTFOLIOS_FILE, PARSER_RATES_FILE, HISTORY_FILE,
     WithSuffixTmp(PARSER_RATES_FILE), WithSuffixTmp(HISTORY_FILE)}

\* self.clients of RatesUpdater when none are passed, by class name.
Clients == <<"CoinGeckoClient", "ExchangeRateApiClient">>

\* A list passed as RatesUpdater(clients=...): the CoinGecko client, and an
\* instance of another BaseApiClient subclass that reports the same pair.
OverlapClients == <<"CoinGeckoClient", "MirrorClient">>

\* run_update: the source label of a client.
SourceOf(client_name) ==
    CASE client_name = "CoinGeckoClient" -> "CoinGecko"
      [] client_name = "ExchangeRateApiClient" -> "ExchangeRate-API"
      [] OTHER -> client_name

\* The pair keys a client builds, in the order of CRYPTO_CURRENCIES and
\* FIAT_CURRENCIES (the first cryptocurrency and the first fiat currency).
ClientKeys(client_name) ==
    CASE client_name = "CoinGeckoClient" -> <<"BTC_USD">>
      [] client_name = "ExchangeRateApiClient" -> <<"EUR_USD">>
      [] client_name = "MirrorClient" -> <<"BTC_USD">>
      [] OTHER -> <<>>

\* The numbers a provider may report as a rate: fetch_rates passes whatever
\* float(...) accepts, zero and negative numbers included.
FetchRates == {<<0, 1>>, <<2, 1>>}

\* fetch_rates of both clients: rate = float(crypto_data["usd"]) and
\* rate = float(rates_data[fiat_code]), the provider's figure as it is.
StoredRate(figure) == figure

\* The mappings fetch_rates may return over `keys`: a key is present when the
\* provider's answer holds it. A mapping is the sequence of its items; an
\* item remembers the provider's figure as `quoted`.
RECURSIVE Mappings(_)
Mappings(keys) ==
    IF keys = <<>>
    THEN {<<>>}
    ELSE LET rest == Mappings(Tail(keys))
         IN  rest \cup {<<[key |-> Head(keys), quoted |-> r,
                             rate |-> StoredRate(r)]>> \o m :
                            r \in FetchRates, m \in rest}

PairCodes == {"BTC", "ETH", "EUR", "USD"}

\* pair_key.split("_", 1)
SplitKey(pair_key) ==
    CHOOSE ft \in PairCodes \X PairCodes : ft[1] \o "_" \o ft[2] = pair_key

EmptyCache == [pairs |-> <<>>, last_refresh |-> NoTime]
EmptyHistory == [records |-> <<>>, last_update |-> NoTime]

\* _load_rates_cache and _load_history: f.read() inside json.load raises
\* UnicodeDecodeError on bytes that are not UTF-8, a ValueError that
\* `except (json.JSONDecodeError, OSError)` does not catch.
LoadRaises(file) == file.st = "garbled"

\* _load_rates_cache, when it returns
LoadRatesCache(file) == IF file.st = "ok" THEN file.doc ELSE EmptyCache

LoadHistory_Forgets(file) == EmptyHistory

\* _load_history, when it returns
LoadHistory(file) == IF file.st = "ok" THEN file.doc ELSE EmptyHistory

\* update_rates_cache: should_update for one pair
ShouldUpdate(pairs, pair_key, timestamp) ==
    ~(pair_key \in DOMAIN pairs /\ pairs[pair_key].updated_at >= timestamp)

MergedCache_OnlyNew(cache_data, rates, sources, timestamp) ==
    [pairs |->
        [k \in DOMAIN rates |->
            IF ShouldUpdate(cache_data.pairs, k, timestamp)
            THEN [rate |-> rates[k], updated_at |-> timestamp,
                  source |-> sources[k]]
            ELSE cache_data.pairs[k]],
     last_refresh |-> timestamp]

MergedCache_StaleRefresh(cache_data, rates, sources, timestamp) ==
    [pairs |->
        [k \in DOMAIN cache_data.pairs \cup DOMAIN rates |->
            IF k \in DOMAIN rates /\ ShouldUpdate(cache_data.pairs, k, timestamp)
            THEN [rate |-> rates[k], updated_at |-> timestamp,
                  source |-> sources[k]]
            ELSE cache_data.pairs[k]],
     last_refresh |-> cache_data.last_refresh]

\* update_rates_cache: the document it saves
MergedCache(cache_data, rates, sources, timestamp) ==
    [pairs |->
        [k \in DOMAIN cache_data.pairs \cup DOMAIN rates |->
            IF k \in DOMAIN rates /\ ShouldUpdate(cache_data.pairs, k, timestamp)
            THEN [rate |-> rates[k], updated_at |-> timestamp,
                  source |-> sources[k]]
            ELSE cache_data.pairs[k]],
     last_refresh |-> timestamp]

\* What a cycle run at time 0, in which CoinGecko reported BTC_USD = 1, left
\* in the cache file and in the history file.
SeedCache ==
    [pairs |-> [k \in {"BTC_USD"} |->
                   [rate |-> One, updated_at |-> 0, source |-> "CoinGecko"]],
     last_refresh |-> 0]

SeedHistory ==
    [records |-> <<[id |-> <<"BTC", "USD", 0>>, from_currency |-> "BTC",
                    to_currency |-> "USD", rate |-> One, timestamp |-> 0,
                    source |-> "CoinGecko"]>>,
     last_update |-> 0]

\* The frame of run_update: where it is, self.clients, the index of the client
\* of the current turn of the loop, all_rates, all_sources and errors, the
\* items of rates still to record, and the documents being saved. Besides:
\*   polled   the clients whose fetch_rates was called, in order
\*   obs      the pairs taken from the mappings returned, in order, each
\*            with the provider's figure it was built from
\*   cache0   the cache file when run_update was called
\*   hist0    the history file when run_update was called
\*   cache_saves   calls of _save_rates_cache_atomic
\*   cache_timestamp   `timestamp` of update_rates_cache
IdleUp ==
    [pc |-> "idle", clients |-> <<>>, idx |-> 0, all_rates |-> <<>>,
     all_sources |-> <<>>, errors |-> <<>>, todo |-> <<>>,
     hdata |-> EmptyHistory, cdata |-> EmptyCache, polled |-> <<>>,
     obs |-> <<>>, cache0 |-> AbsentFile, hist0 |-> AbsentFile,
     cache_saves |-> 0, cache_timestamp |-> NoTime]

\* What run_update returned (kind "ok": the result dict) or raised, and what
\* the call had done by then.
NoRes ==
    [kind |-> "none", total_pairs |-> 0, sources |-> <<>>, errors |-> <<>>,
     timestamp |-> NoTime, clients |-> <<>>, polled |-> <<>>, obs |-> <<>>,
     all_rates |-> <<>>, cache0 |-> AbsentFile, hist0 |-> AbsentFile,
     cache_saves |-> 0, cache_timestamp |-> NoTime]

\* run_update ends: it returns (kind "ok") or raises an exception of class
\* `kind`.
Ended(kind) ==
    [NoRes EXCEPT !.kind = kind, !.errors = up.errors,
                  !.clients = up.clients, !.polled = up.polled,
                  !.obs = up.obs, !.all_rates = up.all_rates,
                  !.cache0 = up.cache0, !.hist0 = up.hist0,
                  !.cache_saves = up.cache_saves,
                  !.cache_timestamp = up.cache_timestamp]

NoRatesObtained_Never(all_rates) == FALSE

\* run_update: if not all_rates
NoRatesObtained(all_rates) == DOMAIN all_rates = {}

\* run_update is called on an updater with the client list `clients`.
RunUpdate(clients) ==
    /\ UNCHANGED <<resolveVars, raceVars, portfolioVars>>
    /\ up.pc = "idle"
    /\ cycles < MaxCycles
    /\ cycles' = cycles + 1
    /\ up' = [IdleUp EXCEPT !.pc = "poll", !.clients = clients, !.idx = 1,
                            !.cache0 = fs[PARSER_RATES_FILE],
                            !.hist0 = fs[HISTORY_FILE]]
    /\ res' = NoRes
    /\ UNCHANGED <<now, fs, save>>

LoopDone_AfterFirst(idx, n) == idx > 1

\* run_update: the loop over self.clients (n clients) has ended.
LoopDone(idx, n) == idx > n

NextTurn_Break(idx, n) == n + 1

\* run_update: `continue` in the except clauses, and the end of a turn of the
\* loop over self.clients (n clients): the next client's turn.
NextTurn(idx, n) == idx + 1

AppendRecord_Dedup(records, record) ==
    IF \E i \in DOMAIN records : records[i].id = record.id
    THEN records
    ELSE Append(records, record)

\* save_rate_to_history: history_data["records"].append(record)
AppendRecord(records, record) == Append(records, record)

\* The exceptions fetch_rates may raise: the ApiRequestError of its contract,
\* or any other (a client of another class; an AttributeError on a response
\* that is not a JSON object).
FetchErrors == {"ApiRequestError", "AttributeError"}

\* An entry of errors: the client of the turn, the class of the exception the
\* turn's try caught, and the call that raised it.
ErrorEntry(kind, during) ==
    [client |-> up.clients[up.idx], kind |-> kind, during |-> during]

\* client.fetch_rates() raises; the error is recorded and the loop goes on.
FetchFails ==
    /\ UNCHANGED <<resolveVars, raceVars, portfolioVars>>
    /\ up.pc = "poll"
    /\ ~LoopDone(up.idx, Len(up.clients))
    /\ \E kind \in FetchErrors :
          up' = [up EXCEPT
              !.errors = Append(@, ErrorEntry(kind, "fetch_rates")),
              !.polled = Append(@, up.clients[up.idx]),
              !.idx = NextTurn(@, Len(up.clients))]
    /\ UNCHANGED <<now, fs, res, save, cycles>>

\* client.fetch_rates() returns a mapping.
FetchReturns ==
    /\ UNCHANGED <<resolveVars, raceVars, portfolioVars>>
    /\ up.pc = "poll"
    /\ ~LoopDone(up.idx, Len(up.clients))
    /\ \E rates \in Mappings(ClientKeys(up.clients[up.idx])) :
          up' = IF rates = <<>>
                THEN [up EXCEPT !.idx = NextTurn(@, Len(up.clients)),
                                !.polled = Append(@, up.clients[up.idx])]
                ELSE [up EXCEPT !.pc = "record", !.todo = rates,
                                !.polled = Append(@, up.clients[up.idx])]
    /\ UNCHANGED <<now, fs, res, save, cycles>>

RecordId_Serial(from_currency, to_currency, timestamp) ==
    <<from_currency, to_currency, timestamp, Len(up.obs)>>

\* save_rate_to_history: record_id, the pair and the time formatted with
\* "%Y-%m-%dT%H:%M:%SZ"; the clock counts seconds.
RecordId(from_currency, to_currency, timestamp) ==
    <<from_currency, to_currency, timestamp>>

\* One turn of the loop over rates.items(), as far as the open of the
\* history's temporary file in _save_history_atomic. When _load_history
\* raises, the turn's `except Exception` records it and the loop over the
\* clients goes on.
RecordPair ==
    /\ UNCHANGED <<resolveVars, raceVars, portfolioVars>>
    /\ up.pc = "record"
    /\ LET item == Head(up.todo)
           client_name == up.clients[up.idx]
           source == SourceOf(client_name)
           ft == SplitKey(item.key)
           record == [id |-> RecordId(ft[1], ft[2], now),
                      from_currency |-> ft[1], to_currency |-> ft[2],
                      rate |-> item.rate, timestamp |-> now,
                      source |-> source]
           history_data == LoadHistory(fs[HISTORY_FILE])
           merged == [up EXCEPT
                         !.all_rates = Put(@, item.key, item.rate),
                         !.all_sources = Put(@, item.key, source),
                         !.obs = Append(@, [client |-> client_name,
                                            key |-> item.key,
                                            quoted |-> item.quoted,
                                            record |-> record])]
       IN  IF LoadRaises(fs[HISTORY_FILE])
           THEN /\ up' = [merged EXCEPT
                       !.pc = "poll", !.todo = <<>>,
                       !.errors = Append(@, ErrorEntry("UnicodeDecodeError",
                                                       "_load_history")),
                       !.idx = NextTurn(@, Len(up.clients))]
                /\ UNCHANGED fs
           ELSE /\ up' = [merged EXCEPT
                       !.pc = "hist_staging",
                       !.hdata = [records |-> AppendRecord(history_data.records,
                                                           record),
                                  last_update |-> now]]
                /\ fs' = [fs EXCEPT ![TempFile(HISTORY_FILE)] = TornFile]
    /\ UNCHANGED <<now, res, save, cycles>>

AfterFailedSave_Keeps(file) == file

\* _save_history_atomic and _save_rates_cache_atomic, `except Exception`:
\* if temp_file.exists(): temp_file.unlink()
AfterFailedSave(file) == AbsentFile

\* _save_history_atomic: json.dump into the temporary file completes.
HistoryStage ==
    /\ UNCHANGED <<resolveVars, raceVars, portfolioVars>>
    /\ up.pc = "hist_staging"
    /\ fs' = [fs EXCEPT ![TempFile(HISTORY_FILE)] = JsonFile(up.hdata)]
    /\ up' = [up EXCEPT !.pc = "hist_staged"]
    /\ UNCHANGED <<now, res, save, cycles>>

\* _save_history_atomic: the write, or the replace, fails; the temporary file
\* is unlinked and the exception, raised inside run_update's try, is recorded
\* for the client.
HistoryStageFails ==
    /\ UNCHANGED <<resolveVars, raceVars, portfolioVars>>
    /\ up.pc \in {"hist_staging", "hist_staged"}
    /\ fs' = [fs EXCEPT ![TempFile(HISTORY_FILE)] =
                            AfterFailedSave(fs[TempFile(HISTORY_FILE)])]
    /\ up' = [up EXCEPT
           !.pc = "poll", !.todo = <<>>, !.hdata = EmptyHistory,
           !.errors = Append(@, ErrorEntry("OSError", "_save_history_atomic")),
           !.idx = NextTurn(@, Len(up.clients))]
    /\ UNCHANGED <<now, res, save, cycles>>

\* _save_history_atomic: temp_file.replace(self.history_file); the loop goes on.
HistoryReplace ==
    /\ UNCHANGED <<resolveVars, raceVars, portfolioVars>>
    /\ up.pc = "hist_staged"
    /\ fs' = [fs EXCEPT ![TempFile(HISTORY_FILE)] = AbsentFile,
                        ![HISTORY_FILE] = fs[TempFile(HISTORY_FILE)]]
    /\ up' = IF Tail(up.todo) = <<>>
             THEN [up EXCEPT !.pc = "poll", !.todo = <<>>,
                             !.hdata = EmptyHistory,
                             !.idx = NextTurn(@, Len(up.clients))]
             ELSE [up EXCEPT !.pc = "record", !.todo = Tail(@),
                             !.hdata = EmptyHistory]
    /\ UNCHANGED <<now, res, save, cycles>>

\* run_update after the loop with all_rates empty: ApiRequestError.
AllSourcesFailed ==
    /\ UNCHANGED <<resolveVars, raceVars, portfolioVars>>
    /\ up.pc = "poll"
    /\ LoopDone(up.idx, Len(up.clients))
    /\ NoRatesObtained(up.all_rates)
    /\ res' = Ended("ApiRequestError")
    /\ up' = IdleUp
    /\ UNCHANGED <<now, fs, save, cycles>>

\* update_rates_cache as far as the open of the temporary file in
\* _save_rates_cache_atomic. When _load_rates_cache raises, the exception
\* leaves run_update.
UpdateRatesCache ==
    /\ UNCHANGED <<resolveVars, raceVars, portfolioVars>>
    /\ up.pc = "poll"
    /\ LoopDone(up.idx, Len(up.clients))
    /\ ~NoRatesObtained(up.all_rates)
    /\ LET cache_data == LoadRatesCache(fs[PARSER_RATES_FILE])
           data == MergedCache(cache_data, up.all_rates, up.all_sources, now)
       IN  IF LoadRaises(fs[PARSER_RATES_FILE])
           THEN /\ res' = Ended("UnicodeDecodeError")
                /\ up' = IdleUp
                /\ UNCHANGED <<fs, save>>
           ELSE /\ up' = [up EXCEPT !.pc = "cache_staging", !.cdata = data,
                                      !.cache_saves = @ + 1,
                                      !.cache_timestamp = now]
                /\ save' = [old |-> fs[PARSER_RATES_FILE], new |-> data]
                /\ fs' = [fs EXCEPT ![TempFile(PARSER_RATES_FILE)] = TornFile]
                /\ UNCHANGED res
    /\ UNCHANGED <<now, cycles>>

\* _save_rates_cache_atomic: json.dump into the temporary file completes.
CacheStage ==
    /\ UNCHANGED <<resolveVars, raceVars, portfolioVars>>
    /\ up.pc = "cache_staging"
    /\ fs' = [fs EXCEPT ![TempFile(PARSER_RATES_FILE)] = JsonFile(up.cdata)]
    /\ up' = [up EXCEPT !.pc = "cache_staged"]
    /\ UNCHANGED <<now, res, save, cycles>>

\* _save_rates_cache_atomic: the write, or the replace, fails; the temporary
\* file is unlinked and the exception leaves run_update.
CacheStageFails ==
    /\ UNCHANGED <<resolveVars, raceVars, portfolioVars>>
    /\ up.pc \in {"cache_staging", "cache_staged"}
    /\ fs' = [fs EXCEPT ![TempFile(PARSER_RATES_FILE)] =
                            AfterFailedSave(fs[TempFile(PARSER_RATES_FILE)])]
    /\ res' = Ended("OSError")
    /\ up' = IdleUp
    /\ UNCHANGED <<now, save, cycles>>

\* _save_rates_cache_atomic: temp_file.replace(self.rates_file), and
\* run_update returns its result.
CacheReplace ==
    /\ UNCHANGED <<resolveVars, raceVars, portfolioVars>>
    /\ up.pc = "cache_staged"
    /\ fs' = [fs EXCEPT ![TempFile(PARSER_RATES_FILE)] = AbsentFile,
                        ![PARSER_RATES_FILE] = fs[TempFile(PARSER_RATES_FILE)]]
    /\ res' = [Ended("ok") EXCEPT
                  !.total_pairs = Cardinality(DOMAIN up.all_rates),
                  !.sources = up.all_sources,
                  !.timestamp = now]
    /\ up' = IdleUp
    /\ UNCHANGED <<now, save, cycles>>

\* The process is killed during run_update: memory is lost, files stay.
CrashUpdate ==
    /\ UNCHANGED <<resolveVars, raceVars, portfolioVars>>
    /\ up.pc # "idle"
    /\ up' = IdleUp
    /\ res' = NoRes
    /\ UNCHANGED <<now, fs, save, cycles>>

(* ------------------- update_rates_cache, two processes ------------------ *)

\* The two processes, each running one update cycle.
Procs == {1, 2}

\* The pair both cycles obtained.
RaceKey == "BTC_USD"

\* The frame of update_rates_cache in one process: where it is, its arguments
\* `rates`, cache_data as loaded, timestamp, the document to save, and where
\* the file it opened for writing is now: still at the temporary path
\* ("temp"), renamed to the cache file by a replace ("canon"), without a
\* name ("gone"), or not opened ("none").
IdleProc ==
    [pc |-> "idle", rates |-> <<>>, cache_data |-> EmptyCache,
     timestamp |-> NoTime, data |-> EmptyCache, handle |-> "none"]

\* The greater of `newest` and the updated_at of RaceKey in `file`.
Newest(file, newest) ==
    IF file.st = "ok" /\ RaceKey \in DOMAIN file.doc.pairs
          /\ file.doc.pairs[RaceKey].updated_at > newest
    THEN file.doc.pairs[RaceKey].updated_at
    ELSE newest

\* No process has called update_rates_cache; `newest` is the latest
\* updated_at that the cache file has held for RaceKey.
NoRace(file) == [procs |-> [p \in Procs |-> IdleProc],
                 newest |-> Newest(file, NoTime)]

\* What a file holds after json.dump of `data` through a handle opened before
\* another process wrote `file` through its own: the bytes of `data` over the
\* first bytes of what was there, a document only if nothing longer was.
Overlay(file, data) ==
    IF file.st = "ok" /\ file.doc # data
    THEN {JsonFile(data), TornFile}
    ELSE {JsonFile(data)}

\* run_update of process p calls update_rates_cache(rates, sources), and
\* _load_rates_cache returns.
RaceLoad(p) ==
    /\ UNCHANGED <<resolveVars, updateVars, portfolioVars>>
    /\ race.procs[p].pc = "idle"
    /\ ~LoadRaises(fs[PARSER_RATES_FILE])
    /\ \E r \in FetchRates :
          race' = [race EXCEPT
              !.procs[p].pc = "loaded",
              !.procs[p].rates = [k \in {RaceKey} |-> r],
              !.procs[p].cache_data = LoadRatesCache(fs[PARSER_RATES_FILE])]
    /\ UNCHANGED <<now, fs>>

\* timestamp = datetime.now(timezone.utc).isoformat()
RaceStamp(p) ==
    /\ UNCHANGED <<resolveVars, updateVars, portfolioVars>>
    /\ race.procs[p].pc = "loaded"
    /\ race' = [race EXCEPT !.procs[p].pc = "stamped",
                            !.procs[p].timestamp = now]
    /\ UNCHANGED <<now, fs>>

\* The loop over rates.items(): should_update and the new entries.
RaceCompare(p) ==
    /\ UNCHANGED <<resolveVars, updateVars, portfolioVars>>
    /\ race.procs[p].pc = "stamped"
    /\ race' = [race EXCEPT
           !.procs[p].pc = "merged",
           !.procs[p].data =
               MergedCache(race.procs[p].cache_data, race.procs[p].rates,
                           [k \in {RaceKey} |-> SourceOf("CoinGeckoClient")],
                           race.procs[p].timestamp)]
    /\ UNCHANGED <<now, fs>>

\* _save_rates_cache_atomic: open(temp_file, "w") creates the temporary file
\* or truncates the one that is there.
RaceOpen(p) ==
    /\ UNCHANGED <<resolveVars, updateVars, portfolioVars>>
    /\ race.procs[p].pc = "merged"
    /\ fs' = [fs EXCEPT ![TempFile(PARSER_RATES_FILE)] = TornFile]
    /\ race' = [race EXCEPT !.procs[p].pc = "open",
                            !.procs[p].handle = "temp"]
    /\ UNCHANGED now

\* _save_rates_cache_atomic: json.dump and the close of the file, which write
\* into the file the process opened, wherever it is now.
RaceWrite(p) ==
    /\ UNCHANGED <<resolveVars, updateVars, portfolioVars>>
    /\ race.procs[p].pc = "open"
    /\ LET path == IF race.procs[p].handle = "temp"
                   THEN TempFile(PARSER_RATES_FILE)
                   ELSE PARSER_RATES_FILE
       IN  IF race.procs[p].handle = "gone"
           THEN /\ race' = [race EXCEPT !.procs[p].pc = "written"]
                /\ UNCHANGED fs
           ELSE \E file \in Overlay(fs[path], race.procs[p].data) :
                   /\ fs' = [fs EXCEPT ![path] = file]
                   /\ race' = [race EXCEPT
                          !.procs[p].pc = "written",
                          !.newest = IF path = PARSER_RATES_FILE
                                     THEN Newest(file, @) ELSE @]
    /\ UNCHANGED now

\* _save_rates_cache_atomic: temp_file.replace(self.rates_file). It moves
\* the file at the temporary path, whoever wrote it last, and with it the
\* handles open on that file; without a file there it raises
\* FileNotFoundError, which leaves update_rates_cache.
RaceReplace(p) ==
    /\ UNCHANGED <<resolveVars, updateVars, portfolioVars>>
    /\ race.procs[p].pc = "written"
    /\ IF fs[TempFile(PARSER_RATES_FILE)].st = "absent"
       THEN /\ race' = [race EXCEPT !.procs[p].pc = "failed"]
            /\ UNCHANGED fs
       ELSE /\ fs' = [fs EXCEPT
                   ![PARSER_RATES_FILE] = fs[TempFile(PARSER_RATES_FILE)],
                   ![TempFile(PARSER_RATES_FILE)] = AbsentFile]
            /\ race' =
                   [procs |->
                       [q \in Procs |->
                           [race.procs[q] EXCEPT
                               !.pc = IF q = p THEN "done" ELSE @,
                               !.handle = CASE @ = "temp" -> "canon"
                                            [] @ = "canon" -> "gone"
                                            [] OTHER -> @]],
                    newest |-> Newest(fs[TempFile(PARSER_RATES_FILE)],
                                      race.newest)]
    /\ UNCHANGED now

(* ------------------------- wallets, sell_currency ----------------------- *)

\* Calls on the portfolio in one session.
MaxCalls == 3

\* A Python float: a whole number of units, or nan. Every comparison with nan
\* is False, and arithmetic on nan gives nan.
Num(n) == [nan |-> FALSE, v |-> n]
NaN == [nan |-> TRUE, v |-> 0]
FLe(x, y) == ~x.nan /\ ~y.nan /\ x.v <= y.v
FLt(x, y) == ~x.nan /\ ~y.nan /\ x.v < y.v
FGt(x, y) == ~x.nan /\ ~y.nan /\ x.v > y.v
FAdd(x, y) == IF x.nan \/ y.nan THEN NaN ELSE Num(x.v + y.v)
FSub(x, y) == IF x.nan \/ y.nan THEN NaN ELSE Num(x.v - y.v)
\* amount * rate
FTimes(x, rate) == IF x.nan THEN NaN ELSE Num((x.v * rate[1]) \div rate[2])

\* The amounts passed to deposit, withdraw and sell_currency: what
\* isinstance(amount, (int, float)) accepts.
Amounts == {Num(-1), Num(0), Num(1), Num(3), NaN}

\* The codes passed to sell_currency.
SellCodes == {"btc", "EUR", "DOGE"}

\* Wallet.deposit: what it raises ("" when it returns) and the balance after.
Deposit(balance, amount) ==
    IF FLe(amount, Num(0))
    THEN [raised |-> "ValueError", balance |-> balance]
    ELSE [raised |-> "", balance |-> FAdd(balance, amount)]

\* Wallet.withdraw: what it raises ("" when it returns) and the balance after.
Withdraw(balance, amount) ==
    IF FLe(amount, Num(0))
    THEN [raised |-> "ValueError", balance |-> balance]
    ELSE IF FGt(amount, balance)
    THEN [raised |-> "InsufficientFundsError", balance |-> balance]
    ELSE [raised |-> "", balance |-> FSub(balance, amount)]

\* get_exchange_rate(from_currency, to_currency, rates_data): the direct
\* entry, the inverse of the reverse entry, or the fixed table of utils.py,
\* which is that of _get_rate_from_stub.
GetExchangeRate(from_currency, to_currency, rates_data) ==
    IF from_currency = to_currency
    THEN [ok |-> TRUE, rate |-> One]
    ELSE IF HasRate(rates_data, RateKey(from_currency, to_currency))
    THEN [ok |-> TRUE,
          rate |-> rates_data[RateKey(from_currency, to_currency)].rate]
    ELSE IF HasRate(rates_data, RateKey(to_currency, from_currency))
    THEN [ok |-> TRUE,
          rate |-> FracInv(rates_data[RateKey(to_currency, from_currency)].rate)]
    ELSE GetRateFromStub(from_currency, to_currency)

\* No call on a wallet yet, and no sell_currency call.
NoWalletCall ==
    [op |-> "none", amount |-> Num(0), before |-> Num(0), after |-> Num(0),
     raised |-> ""]
NoSale ==
    [kind |-> "none", currency |-> "", amount |-> Num(0),
     mem0 |-> <<>>, mem1 |-> <<>>, file0 |-> AbsentFile, file1 |-> AbsentFile]

\* _current_portfolio: the balance of each wallet of the user logged in; the
\* number of calls made on it; what the last call of a Wallet method did
\* (wcall); and what the last sell_currency call did (sold): what it raised,
\* and the balances in memory and the portfolio file before and after it.
NoPortfolio ==
    [wallets |-> <<>>, calls |-> 0, wcall |-> NoWalletCall, sold |-> NoSale]

\* save_portfolio_to_json: the wallets as written to portfolios.json.
PortfolioDoc(wallets) == [wallets |-> wallets]

\* wallet.deposit(amount) on the wallet `code` of the portfolio.
WalletDeposit(code, amount) ==
    /\ UNCHANGED <<now, fs, resolveVars, updateVars, raceVars>>
    /\ pf.calls < MaxCalls
    /\ code \in DOMAIN pf.wallets
    /\ LET out == Deposit(pf.wallets[code], amount)
       IN  pf' = [pf EXCEPT
                     !.calls = @ + 1,
                     !.wallets[code] = out.balance,
                     !.wcall = [op |-> "deposit", amount |-> amount,
                                before |-> pf.wallets[code],
                                after |-> out.balance,
                                raised |-> out.raised]]

\* wallet.withdraw(amount) on the wallet `code` of the portfolio.
WalletWithdraw(code, amount) ==
    /\ UNCHANGED <<now, fs, resolveVars, updateVars, raceVars>>
    /\ pf.calls < MaxCalls
    /\ code \in DOMAIN pf.wallets
    /\ LET out == Withdraw(pf.wallets[code], amount)
       IN  pf' = [pf EXCEPT
                     !.calls = @ + 1,
                     !.wallets[code] = out.balance,
                     !.wcall = [op |-> "withdraw", amount |-> amount,
                                before |-> pf.wallets[code],
                                after |-> out.balance,
                                raised |-> out.raised]]

\* sell_currency(code, amount) with the default base currency USD, from
\* validate_amount to the return or the exception. `disk_full` is whether
\* json.dump fails in save_json(PORTFOLIOS_FILE, ...), after the open
\* truncated the file.
SellCurrency(code, amount, disk_full) ==
    /\ UNCHANGED <<now, resolveVars, updateVars, raceVars>>
    /\ pf.calls < MaxCalls
    /\ LET currency == Normalize(code)
           base_currency == "USD"
           sale == [NoSale EXCEPT !.currency = currency, !.amount = amount,
                                  !.mem0 = pf.wallets,
                                  !.file0 = fs[PORTFOLIOS_FILE]]
           Raise(kind, wallets, files) ==
               /\ fs' = files
               /\ pf' = [pf EXCEPT
                             !.calls = @ + 1, !.wallets = wallets,
                             !.sold = [sale EXCEPT
                                          !.kind = kind, !.mem1 = wallets,
                                          !.file1 = files[PORTFOLIOS_FILE]]]
       IN  IF FLe(amount, Num(0))
           THEN Raise("ValueError", pf.wallets, fs)
           ELSE IF ~IsRegistered(currency)
           THEN Raise("CurrencyNotFoundError", pf.wallets, fs)
           ELSE IF currency \notin DOMAIN pf.wallets
           THEN Raise("ValueError", pf.wallets, fs)
           ELSE
           LET out == Withdraw(pf.wallets[currency], amount)
               sold == [pf.wallets EXCEPT ![currency] = out.balance]
               \* load_json(RATES_FILE) creates the file when it is absent
               loaded == IF fs[RATES_FILE].st = "absent"
                         THEN [fs EXCEPT ![RATES_FILE] = JsonFile(<<>>)]
                         ELSE fs
               found == GetExchangeRate(currency, base_currency,
                                        loaded[RATES_FILE].doc)
               paid == IF base_currency \in DOMAIN sold
                       THEN Deposit(sold[base_currency],
                                    FTimes(amount, found.rate))
                       ELSE [raised |-> "", balance |-> Num(0)]
               credited == IF base_currency \in DOMAIN sold
                           THEN [sold EXCEPT ![base_currency] = paid.balance]
                           ELSE sold
           IN  IF out.raised # ""
               THEN Raise(out.raised, pf.wallets, fs)
               ELSE IF fs[RATES_FILE].st = "torn"
               THEN Raise("JSONDecodeError", sold, fs)
               ELSE IF ~found.ok
               THEN Raise("ValueError", sold, loaded)
               ELSE IF paid.raised # ""
               THEN Raise(paid.raised, sold, loaded)
               ELSE IF loaded[PORTFOLIOS_FILE].st = "torn"
               THEN Raise("JSONDecodeError", credited, loaded)
               ELSE IF disk_full
               THEN Raise("OSError", credited,
                          [loaded EXCEPT ![PORTFOLIOS_FILE] = TornFile])
               ELSE Raise("ok", credited,
                          [loaded EXCEPT ![PORTFOLIOS_FILE] =
                                      JsonFile(PortfolioDoc(credited))])

(* --------------------------- specifications --------------------------- *)

\* A fresh installation, or one in which an update cycle has run before.
Init ==
    /\ now = 0
    /\ \E seeded \in BOOLEAN :
          fs = [p \in Paths |->
                   IF seeded /\ p = PARSER_RATES_FILE THEN JsonFile(SeedCache)
                   ELSE IF seeded /\ p = HISTORY_FILE THEN JsonFile(SeedHistory)
                   ELSE AbsentFile]
    /\ gr = IdleFrame
    /\ last = NoCall
    /\ prev = NoCall
    /\ up = IdleUp
    /\ res = NoRes
    /\ save = [old |-> fs[PARSER_RATES_FILE], new |-> EmptyCache]
    /\ cycles = 0
    /\ race = NoRace(fs[PARSER_RATES_FILE])
    /\ pf = NoPortfolio

NextResolve ==
    \/ \E a \in ArgCodes, b \in ArgCodes : GetRate(a, b)
    \/ LoadJsonCreate
    \/ GetRateLoaded
    \/ SaveJsonWrite
    \/ GetRateReturn
    \/ CrashResolve
    \/ Tick

SpecResolve == Init /\ [][NextResolve]_vars

NextUpdate ==
    \/ RunUpdate(Clients)
    \/ FetchFails
    \/ FetchReturns
    \/ RecordPair
    \/ HistoryStage
    \/ HistoryStageFails
    \/ HistoryReplace
    \/ AllSourcesFailed
    \/ UpdateRatesCache
    \/ CacheStage
    \/ CacheStageFails
    \/ CacheReplace
    \/ CrashUpdate
    \/ Tick

SpecUpdate == Init /\ [][NextUpdate]_vars

\* What the parser's two files may hold when the updater starts: the documents
\* of an earlier cycle, a truncated document, or bytes that are not UTF-8.
FoundFiles(seed) == {JsonFile(seed), TornFile, GarbledFile}

\* An installation whose files were left by an earlier cycle or damaged since.
InitStorage ==
    /\ now = 0
    /\ \E c \in FoundFiles(SeedCache), h \in FoundFiles(SeedHistory) :
          fs = [p \in Paths |->
                   IF p = PARSER_RATES_FILE THEN c
                   ELSE IF p = HISTORY_FILE THEN h
                   ELSE AbsentFile]
    /\ gr = IdleFrame
    /\ last = NoCall
    /\ prev = NoCall
    /\ up = IdleUp
    /\ res = NoRes
    /\ save = [old |-> fs[PARSER_RATES_FILE], new |-> EmptyCache]
    /\ cycles = 0
    /\ race = NoRace(fs[PARSER_RATES_FILE])
    /\ pf = NoPortfolio

\* The updater built with two clients that report the same pair; the process
\* is not killed.
NextStorage ==
    \/ RunUpdate(OverlapClients)
    \/ FetchFails
    \/ FetchReturns
    \/ RecordPair
    \/ HistoryStage
    \/ HistoryStageFails
    \/ HistoryReplace
    \/ AllSourcesFailed
    \/ UpdateRatesCache
    \/ CacheStage
    \/ CacheStageFails
    \/ CacheReplace
    \/ Tick

SpecStorage == InitStorage /\ [][NextStorage]_vars

\* The arguments of `get-rate`: a pair that CoinGecko reports.
HubPairs == {<<"BTC", "USD">>}

\* cmd_get_rate: the command `get-rate`, run while no update is running.
HubGetRate ==
    /\ up.pc = "idle"
    /\ \E p \in HubPairs : GetRate(p[1], p[2])

\* cmd_update_rates: the command `update-rates`, run while no get_rate is.
HubRunUpdate ==
    /\ gr.pc = "idle"
    /\ RunUpdate(Clients)

\* main: the commands are run one after the other, in any order; none is
\* killed and no save fails.
NextHub ==
    \/ HubGetRate
    \/ LoadJsonCreate
    \/ GetRateLoaded
    \/ SaveJsonWrite
    \/ GetRateReturn
    \/ HubRunUpdate
    \/ FetchFails
    \/ FetchReturns
    \/ RecordPair
    \/ HistoryStage
    \/ HistoryReplace
    \/ AllSourcesFailed
    \/ UpdateRatesCache
    \/ CacheStage
    \/ CacheReplace
    \/ Tick

SpecHub == Init /\ [][NextHub]_vars

\* Two cycles reach update_rates_cache at about the same time; no write fails
\* and no process is killed.
NextRace ==
    \/ \E p \in Procs : RaceLoad(p)
    \/ \E p \in Procs : RaceStamp(p)
    \/ \E p \in Procs : RaceCompare(p)
    \/ \E p \in Procs : RaceOpen(p)
    \/ \E p \in Procs : RaceWrite(p)
    \/ \E p \in Procs : RaceReplace(p)
    \/ Tick

SpecRace == Init /\ [][NextRace]_vars

\* The balances a user has when they log in: bitcoin, with or without a
\* wallet in the base currency.
StartWallets ==
    {[c \in {"BTC"} |-> Num(2)], [c \in {"BTC", "USD"} |-> Num(2)]}

\* A user is logged in, their portfolio is loaded from portfolios.json, and
\* the rates file is absent, was written by get_rate, or was left truncated
\* by a get_rate call that was killed.
InitPortfolio ==
    /\ now = 0
    /\ \E wallets \in StartWallets,
          rates \in {AbsentFile, TornFile,
                     JsonFile(WithRate(<<>>, "BTC", "USD",
                                       GetRateFromStub("BTC", "USD").rate, 0))} :
          /\ fs = [p \in Paths |->
                      IF p = PORTFOLIOS_FILE THEN JsonFile(PortfolioDoc(wallets))
                      ELSE IF p = RATES_FILE THEN rates
                      ELSE AbsentFile]
          /\ pf = [NoPortfolio EXCEPT !.wallets = wallets]
    /\ gr = IdleFrame
    /\ last = NoCall
    /\ prev = NoCall
    /\ up = IdleUp
    /\ res = NoRes
    /\ save = [old |-> fs[PARSER_RATES_FILE], new |-> EmptyCache]
    /\ cycles = 0
    /\ race = NoRace(fs[PARSER_RATES_FILE])

NextPortfolio ==
    \/ \E code \in {"BTC", "USD"}, amount \in Amounts :
          WalletDeposit(code, amount)
    \/ \E code \in {"BTC", "USD"}, amount \in Amounts :
          WalletWithdraw(code, amount)
    \/ \E code \in SellCodes, amount \in Amounts, disk_full \in BOOLEAN :
          SellCurrency(code, amount, disk_full)

SpecPortfolio == InitPortfolio /\ [][NextPortfolio]_vars

(* ------------------------------- claims ------------------------------- *)

\* The forward entry of the last call, as the cache file holds it.
LastEntry == fs[RATES_FILE].doc[RateKey(last.from, last.to)]

\* C1: whatever happens to run_update, a kill at any step included, the cache
\* file of the parser service is never a truncated or partial document: it
\* holds its complete contents from before the latest save, or the complete
\* document of that save.
C1_CacheSaveCrashSafe ==
    /\ fs[PARSER_RATES_FILE].st # "torn"
    /\ fs[PARSER_RATES_FILE] \in {save.old, JsonFile(save.new)}

\* The process was killed after the temporary file was completely written and
\* before the replace: the cache file still holds the earlier cycle's document.
C1_Witness ==
    /\ up.pc = "idle"
    /\ fs[WithSuffixTmp(PARSER_RATES_FILE)] = JsonFile(save.new)
    /\ fs[PARSER_RATES_FILE] = JsonFile(SeedCache)
    /\ save.new # SeedCache

\* C2: when no get_rate call is running (it has ended, or the process was
\* killed in it), data/rates.json is not a truncated or half-written file.
C2_CoreCacheNeverTorn == gr.pc = "idle" => fs[RATES_FILE].st # "torn"

\* Two get_rate calls for the same pair A != B, one after the other, both
\* returning, the second begun less than TTL after the first.
C3_Consecutive ==
    /\ gr.pc = "idle"
    /\ prev.kind = "ok"
    /\ last.kind = "ok"
    /\ prev.from = last.from
    /\ prev.to = last.to
    /\ last.from # last.to
    /\ last.started - prev.started < rates_ttl_seconds

C4_FreshnessIsStrict ==
    (gr.pc = "idle" /\ last.kind = "ok" /\ last.from # last.to) =>
        /\ last.via = "cache" <=> (last.found /\ last.age < rates_ttl_seconds)
        /\ last.via = "cache" =>
              /\ last.computed = 0
              /\ last.saves = 0
              /\ LastEntry = [rate |-> last.rate, updated_at |-> last.updated_at]
        /\ last.via # "cache" => last.computed = 1

\* An entry aged exactly TTL was found, and the rate was computed again.
C4_Witness ==
    /\ gr.pc = "idle"
    /\ last.kind = "ok"
    /\ last.found
    /\ last.age = rates_ttl_seconds
    /\ last.via = "stub"

\* C5: get_rate(A, A) for a registered A returns rate 1.0 and reverse rate 1.0
\* and neither reads, creates nor writes the cache file.
C5_IdentityTouchesNoFile ==
    /\ (last.kind # "none" /\ last.from = last.to /\ last.from \in Registry) =>
          /\ last.kind = "ok"
          /\ last.via = "identity"
          /\ last.rate = One
          /\ last.reverse_rate = One
          /\ ~last.read
          /\ ~last.created
          /\ last.saves = 0
    /\ (gr.pc # "idle" /\ gr.call.from \in Registry) => gr.call.from # gr.call.to

\* get_rate(A, A) has returned and the cache file still does not exist.
C5_Witness ==
    /\ last.kind = "ok"
    /\ last.from = last.to
    /\ fs[RATES_FILE].st = "absent"

\* C6: after a get_rate that computed the rate, the cache file holds an entry
\* under the forward key with exactly the rate and the timestamp returned.
C6_ReturnsPersistedEntry ==
    (gr.pc = "idle" /\ last.kind = "ok" /\ last.via = "stub") =>
        /\ fs[RATES_FILE].st = "ok"
        /\ RateKey(last.from, last.to) \in DOMAIN fs[RATES_FILE].doc
        /\ LastEntry.rate = last.rate
        /\ LastEntry.updated_at = last.updated_at

\* C9: a get_rate call with a code that is not in the registry ends with
\* CurrencyNotFoundError, having neither read, created nor written the cache
\* file, nor called the rate source; and no call in progress has such a code.
C9_UnknownCodeFailsBeforeIO ==
    /\ (last.kind # "none"
        /\ (last.from \notin Registry \/ last.to \notin Registry)) =>
          /\ last.kind = "CurrencyNotFoundError"
          /\ ~last.read
          /\ ~last.created
          /\ last.saves = 0
          /\ last.computed = 0
    /\ gr.pc # "idle" =>
          (gr.call.from \in Registry /\ gr.call.to \in Registry)

\* An unknown code was refused and the cache file still does not exist.
C9_Witness ==
    /\ last.kind = "CurrencyNotFoundError"
    /\ last.to = "DOGE"
    /\ last.from = "BTC"
    /\ fs[RATES_FILE].st = "absent"

\* C10: no get_rate call ends with the JSON parse error of the cache file.
C10_ReadFailureNeverPropagates == last.kind # "JSONDecodeError"

\* The pairs of the cache file, and its last_refresh, when it holds a document.
CachePairs == fs[PARSER_RATES_FILE].doc.pairs
CacheRefresh == fs[PARSER_RATES_FILE].doc.last_refresh

\* The pairs run_update found in the cache file when it was called.
PairsBefore == LoadRatesCache(res.cache0).pairs

\* The entry update_rates_cache writes for pair key k of the ended cycle.
CycleEntry(k) ==
    [rate |-> res.all_rates[k], updated_at |-> CacheRefresh,
     source |-> res.sources[k]]

\* The error entries of the ended cycle that fetch_rates raised.
FetchFailures == {i \in DOMAIN res.errors : res.errors[i].during = "fetch_rates"}

\* Every client of the ended cycle failed at fetch_rates.
AllFetchesFailed ==
    /\ Len(res.errors) = Len(res.clients)
    /\ FetchFailures = DOMAIN res.errors

\* C11: no run_update ends with, or records as an error, an exception raised
\* by _load_rates_cache or _load_history: over a cache or history file that is
\* not valid JSON the loads return their empty documents.
C11_LoadsNeverFail ==
    /\ res.kind # "UnicodeDecodeError"
    /\ \A i \in DOMAIN res.errors : res.errors[i].kind # "UnicodeDecodeError"

\* C12: when fetch_rates of some client raised in a run_update that has ended,
\* every client of the list was polled, in order; and if a pair was obtained
\* the call did not raise the aggregated ApiRequestError: unless the cache save
\* itself failed it returned a result that lists the errors, and the cache
\* file holds every pair obtained, as update_rates_cache merges it.
C12_SourceFailureNeverAborts ==
    (res.kind # "none" /\ FetchFailures # {}) =>
        /\ res.polled = res.clients
        /\ DOMAIN res.all_rates # {} =>
              /\ res.kind \in {"ok", "OSError"}
              /\ res.kind = "ok" =>
                    /\ Len(res.errors) >= 1
                    /\ res.total_pairs >= 1
                    /\ fs[PARSER_RATES_FILE].st = "ok"
                    /\ \A k \in DOMAIN res.all_rates :
                          /\ k \in DOMAIN CachePairs
                          /\ CachePairs[k] =
                                IF ShouldUpdate(PairsBefore, k, CacheRefresh)
                                THEN CycleEntry(k)
                                ELSE PairsBefore[k]

\* CoinGecko failed, ExchangeRate-API was still polled and its pair is in the
\* cache file, beside the pair of the earlier cycle.
C12_Witness ==
    /\ res.kind = "ok"
    /\ Len(res.errors) = 1
    /\ res.errors[1].client = "CoinGeckoClient"
    /\ res.errors[1].during = "fetch_rates"
    /\ res.polled = Clients
    /\ fs[PARSER_RATES_FILE].st = "ok"
    /\ DOMAIN CachePairs = {"BTC_USD", "EUR_USD"}
    /\ CachePairs["EUR_USD"].source = "ExchangeRate-API"

\* C13: when every client's fetch_rates raised, run_update raises
\* ApiRequestError, no cache save was begun, and the cache file is what it was
\* when run_update was called.
C13_AllSourcesFailIsFatal ==
    (res.kind # "none" /\ AllFetchesFailed) =>
        /\ res.kind = "ApiRequestError"
        /\ res.cache_saves = 0
        /\ fs[PARSER_RATES_FILE] = res.cache0
        /\ fs[HISTORY_FILE] = res.hist0

\* Both clients failed over the cache of an earlier cycle.
C13_Witness ==
    /\ res.kind = "ApiRequestError"
    /\ Len(res.errors) = 2
    /\ AllFetchesFailed
    /\ fs[PARSER_RATES_FILE] = JsonFile(SeedCache)

\* C14: run_update raises its aggregated ApiRequestError only when every
\* client's fetch_rates raised.
C14_FatalOnlyWhenAllFail == res.kind = "ApiRequestError" => AllFetchesFailed

\* The observations of pair key k in the ended cycle, and the last of them.
KeyObs(k) == {i \in DOMAIN res.obs : res.obs[i].key = k}
LastObs(k) == res.obs[CHOOSE i \in KeyObs(k) : \A j \in KeyObs(k) : j <= i]

\* C15: when run_update has ended, the merge buffer holds, for every pair key
\* that the returned mappings held, the rate of the last client in polling
\* order that returned it; the result's sources map holds that client's label;
\* and the entry update_rates_cache wrote for the key holds both.
C15_LastSourceWins ==
    res.kind # "none" =>
        /\ DOMAIN res.all_rates = {res.obs[i].key : i \in DOMAIN res.obs}
        /\ \A k \in DOMAIN res.all_rates :
              /\ res.all_rates[k] = LastObs(k).record.rate
              /\ res.kind = "ok" =>
                    /\ res.sources[k] = SourceOf(LastObs(k).client)
                    /\ ShouldUpdate(PairsBefore, k, CacheRefresh) =>
                          CachePairs[k] =
                              [rate |-> LastObs(k).record.rate,
                               updated_at |-> CacheRefresh,
                               source |-> SourceOf(LastObs(k).client)]

\* Both clients returned BTC_USD, the first at 0 and the second at 2, and the
\* cache entry is the second's.
C15_Witness ==
    /\ res.kind = "ok"
    /\ Len(res.obs) = 2
    /\ res.obs[1].key = "BTC_USD"
    /\ res.obs[2].key = "BTC_USD"
    /\ res.obs[1].record.rate = <<0, 1>>
    /\ res.obs[2].record.rate = <<2, 1>>
    /\ res.sources["BTC_USD"] = "MirrorClient"
    /\ CachePairs["BTC_USD"].rate = <<2, 1>>
    /\ CachePairs["BTC_USD"].source = "MirrorClient"

\* C16: the entry of a pair key of the ended cycle was replaced by the cycle's
\* observation exactly when the cache held no entry for the key or held one
\* whose updated_at is not later than the cycle's timestamp, a tie included.
C16_TieFavoursUpdate ==
    res.kind = "ok" =>
        \A k \in DOMAIN res.all_rates :
            (k \notin DOMAIN PairsBefore
             \/ PairsBefore[k].updated_at <= CacheRefresh)
                <=> CachePairs[k] = CycleEntry(k)

\* C17: a run_update that returned a result recorded no failure of a history
\* write among its errors: such a failure leaves run_update as an exception.
C17_PersistenceFailureIsFatal ==
    res.kind = "ok" =>
        \A i \in DOMAIN res.errors :
            res.errors[i].during # "_save_history_atomic"

\* The clients of the ended cycle that have an entry in errors, the place of a
\* client in the list, and the pair keys obtained from the other clients.
FailedClients == {res.errors[i].client : i \in DOMAIN res.errors}
PlaceOf(client) == CHOOSE i \in DOMAIN res.clients : res.clients[i] = client
KeysObtained ==
    {res.obs[i].key :
        i \in {j \in DOMAIN res.obs : res.obs[j].client \notin FailedClients}}

\* C18: in a returned result total_pairs is the number of distinct pair keys
\* obtained from the clients that did not fail, sources has exactly those keys,
\* and errors has one entry for each client that failed, in polling order.
C18_SummaryCounts ==
    res.kind = "ok" =>
        /\ res.total_pairs = Cardinality(KeysObtained)
        /\ DOMAIN res.sources = KeysObtained
        /\ \A i \in DOMAIN res.errors, j \in DOMAIN res.errors :
              i < j => PlaceOf(res.errors[i].client) < PlaceOf(res.errors[j].client)

\* The records a history file holds.
RecordsIn(file) == IF file.st = "ok" THEN file.doc.records ELSE <<>>

\* The records of the observations, in order, of the clients that did not fail.
RECURSIVE SavedRecords(_)
SavedRecords(obs) ==
    IF obs = <<>>
    THEN <<>>
    ELSE (IF Head(obs).client \in FailedClients
          THEN <<>>
          ELSE <<Head(obs).record>>) \o SavedRecords(Tail(obs))

C21_OneCacheWritePerCycle ==
    [][/\ fs'[PARSER_RATES_FILE] # fs[PARSER_RATES_FILE] =>
              /\ up.pc = "cache_staged"
              /\ up.polled = up.clients
              /\ up.todo = <<>>
              /\ up.cache_saves = 1
              /\ fs[PARSER_RATES_FILE] = up.cache0
              /\ res'.kind = "ok"
       /\ up'.cache_saves <= 1]_vars

\* Both clients were polled and their pairs recorded in the history, the cache
\* save is staged, and the cache file is still the earlier cycle's.
C21_Witness ==
    /\ up.pc = "cache_staged"
    /\ Len(up.obs) = 2
    /\ up.errors = <<>>
    /\ Len(fs[HISTORY_FILE].doc.records) = 3
    /\ fs[PARSER_RATES_FILE] = JsonFile(SeedCache)
    /\ fs[TempFile(PARSER_RATES_FILE)] # JsonFile(SeedCache)

\* C22: every entry of the parser's cache file and of the resolver's cache file
\* has a rate greater than zero.
C22_RatesArePositive ==
    /\ fs[PARSER_RATES_FILE].st = "ok" =>
          \A k \in DOMAIN CachePairs : CachePairs[k].rate[1] > 0
    /\ fs[RATES_FILE].st = "ok" =>
          \A k \in DOMAIN fs[RATES_FILE].doc \ {"last_refresh"} :
              fs[RATES_FILE].doc[k].rate[1] > 0

\* C23: every entry of the resolver's cache file has a source field beside its
\* rate and its timestamp.
C23_EntriesCarrySource ==
    fs[RATES_FILE].st = "ok" =>
        \A k \in DOMAIN fs[RATES_FILE].doc \ {"last_refresh"} :
            "source" \in DOMAIN fs[RATES_FILE].doc[k]

\* The pair keys run_update took from the mapping that `client` returned.
KeysFrom(client) ==
    {res.obs[i].key : i \in {j \in DOMAIN res.obs : res.obs[j].client = client}}

\* The clients of the ended cycle whose fetch_rates raised.
FailedAtFetch == {res.errors[i].client : i \in FetchFailures}

\* C26: the mapping a client's fetch_rates returned holds a rate for every pair
\* key of that client: a client whose fetch_rates did not raise gave them all.
C26_NoPartialMapping ==
    res.kind # "none" =>
        \A i \in DOMAIN res.polled :
            res.polled[i] \notin FailedAtFetch =>
                \A n \in DOMAIN ClientKeys(res.polled[i]) :
                    ClientKeys(res.polled[i])[n] \in KeysFrom(res.polled[i])

\* C24: a step of run_update that changes a readable cache file keeps every
\* pair key the file held, and leaves the entry of every key that is not in
\* all_rates as it was; no step of run_update changes the file get_rate writes
\* its entries to.
C24_EntriesNeverDeleted ==
    [][/\ up.pc # "idle" => fs'[RATES_FILE] = fs[RATES_FILE]
       /\ (fs[PARSER_RATES_FILE].st = "ok"
              /\ fs'[PARSER_RATES_FILE] # fs[PARSER_RATES_FILE]) =>
             /\ fs'[PARSER_RATES_FILE].st = "ok"
             /\ \A k \in DOMAIN fs[PARSER_RATES_FILE].doc.pairs :
                   /\ k \in DOMAIN fs'[PARSER_RATES_FILE].doc.pairs
                   /\ k \notin DOMAIN up.all_rates =>
                          fs'[PARSER_RATES_FILE].doc.pairs[k] =
                              fs[PARSER_RATES_FILE].doc.pairs[k]]_vars

\* A cycle that obtained EUR_USD only has saved the cache over the one that
\* held BTC_USD, after get_rate had written its own entry.
C24_Witness ==
    /\ res.kind = "ok"
    /\ DOMAIN PairsBefore = {"BTC_USD"}
    /\ DOMAIN res.all_rates = {"EUR_USD"}
    /\ DOMAIN CachePairs = {"BTC_USD", "EUR_USD"}
    /\ CachePairs["BTC_USD"] = PairsBefore["BTC_USD"]
    /\ CachePairs["EUR_USD"].updated_at > 0
    /\ last.kind = "ok"
    /\ fs[RATES_FILE].st = "ok"
    /\ "BTC_USD" \in DOMAIN fs[RATES_FILE].doc

\* C25: when get_rate(A, B) with A # B has returned, the file holds, under
\* every key other than A_B and last_refresh, what load_json returned to the
\* call, B_A included, and no further key; the reverse rate returned is
\* 1/rate.
C25_MirrorNeverWritten ==
    (last.kind = "ok" /\ last.from # last.to /\ gr.pc = "idle") =>
        LET doc == fs[RATES_FILE].doc
            own == {RateKey(last.from, last.to), "last_refresh"}
        IN  /\ fs[RATES_FILE].st = "ok"
            /\ DOMAIN doc \ own = DOMAIN last.loaded \ own
            /\ \A k \in DOMAIN doc \ own : doc[k] = last.loaded[k]
            /\ last.reverse_rate = FracInv(last.rate)

\* get_rate("BTC", "USD") has written BTC_USD beside the USD_BTC entry that an
\* earlier call left, and returned.
C25_Witness ==
    /\ last.kind = "ok" /\ last.via = "stub" /\ gr.pc = "idle"
    /\ last.from = "BTC" /\ last.to = "USD"
    /\ "USD_BTC" \in DOMAIN last.loaded
    /\ fs[RATES_FILE].st = "ok"
    /\ fs[RATES_FILE].doc["USD_BTC"] = last.loaded["USD_BTC"]
    /\ fs[RATES_FILE].doc["USD_BTC"].updated_at
           < fs[RATES_FILE].doc["BTC_USD"].updated_at

\* C27: a get_rate call begun less than the TTL after the updated_at of the
\* entry that run_update saved for its rate key returns that entry's rate from
\* the cache, without calling the stub and without saving.
C27_OneSharedCache ==
    LET rate_key == RateKey(last.from, last.to)
    IN  (/\ last.kind # "none"
         /\ res.kind = "ok"
         /\ rate_key \in DOMAIN res.all_rates
         /\ last.aggregated # <<>>
         /\ last.aggregated[1].updated_at = res.cache_timestamp
         /\ last.aggregated[1].rate = res.all_rates[rate_key]
         /\ last.started - last.aggregated[1].updated_at < rates_ttl_seconds) =>
            /\ last.kind = "ok"
            /\ last.via = "cache"
            /\ last.rate = last.aggregated[1].rate
            /\ last.computed = 0
            /\ last.saves = 0

\* C30: when run_update has returned, last_refresh in the cache file is the
\* timestamp update_rates_cache took in that cycle, and no entry of the file
\* has a later updated_at.
C30_LastRefreshIsLatest ==
    res.kind = "ok" =>
        /\ fs[PARSER_RATES_FILE].st = "ok"
        /\ CacheRefresh = res.cache_timestamp
        /\ res.cache_timestamp # NoTime
        /\ \A k \in DOMAIN CachePairs : CachePairs[k].updated_at <= CacheRefresh

\* A cycle run at time 2 has added EUR_USD to the cache of time 0.
C30_Witness ==
    /\ res.kind = "ok"
    /\ res.cache0 = JsonFile(SeedCache)
    /\ res.cache_timestamp = 2
    /\ CacheRefresh = 2
    /\ DOMAIN CachePairs = {"BTC_USD", "EUR_USD"}
    /\ CachePairs["BTC_USD"].updated_at = 0
    /\ CachePairs["EUR_USD"].updated_at = 2

\* C28: a step in which a save of the cache or of the history fails, at the
\* write or at the replace, leaves the temporary file absent and the file
\* being saved as it was; the failure of a cache save leaves run_update as an
\* exception, that of a history save reaches the except clause of the
\* client's turn.
C28_FailedSaveLeavesNoTrace ==
    [][/\ (up.pc \in {"cache_staging", "cache_staged"} /\ up'.pc = "idle"
              /\ res'.kind # "ok" /\ res'.kind # "none") =>
             /\ fs'[TempFile(PARSER_RATES_FILE)] = AbsentFile
             /\ fs'[PARSER_RATES_FILE] = fs[PARSER_RATES_FILE]
             /\ fs'[PARSER_RATES_FILE] = save.old
             /\ res'.kind = "OSError"
       /\ (up.pc \in {"hist_staging", "hist_staged"}
              /\ Len(up'.errors) > Len(up.errors)) =>
             /\ fs'[TempFile(HISTORY_FILE)] = AbsentFile
             /\ fs'[HISTORY_FILE] = fs[HISTORY_FILE]
             /\ up'.errors[Len(up'.errors)] =
                    [kind |-> "OSError", during |-> "_save_history_atomic",
                     client |-> up.clients[up.idx]]]_vars

\* The save of the cache failed after a history save of the same cycle had
\* failed too: both temporary files are gone, the cache file is the one found.
C28_Witness ==
    /\ res.kind = "OSError"
    /\ res.cache_saves = 1
    /\ \E i \in DOMAIN res.errors : res.errors[i].during = "_save_history_atomic"
    /\ fs[TempFile(PARSER_RATES_FILE)] = AbsentFile
    /\ fs[TempFile(HISTORY_FILE)] = AbsentFile
    /\ fs[PARSER_RATES_FILE] = JsonFile(SeedCache)
    /\ fs[PARSER_RATES_FILE] = res.cache0
    /\ fs[HISTORY_FILE] = res.hist0

\* C29: whatever the order of the steps of two cycles whose saves both
\* completed, the cache file does not hold, for a pair key, an entry older
\* than one it held before.
C29_NewerEntryProtected ==
    (/\ \A p \in Procs : race.procs[p].pc = "done"
     /\ fs[PARSER_RATES_FILE].st = "ok"
     /\ RaceKey \in DOMAIN CachePairs) =>
        CachePairs[RaceKey].updated_at >= race.newest

\* C31: the id of every record of the history is its pair and the second of
\* its timestamp, so that when a cycle in which no turn failed took the same
\* pair from two clients within one second, the history holds one record for
\* each, the later after the earlier, under one id.
C31_IdsCollideWithinASecond ==
    LET records == RecordsIn(fs[HISTORY_FILE])
    IN  /\ \A n \in DOMAIN records :
              records[n].id = <<records[n].from_currency,
                                records[n].to_currency, records[n].timestamp>>
        /\ (res.kind # "none" /\ res.errors = <<>>) =>
              \A i \in DOMAIN res.obs, j \in DOMAIN res.obs :
                  (/\ i < j
                   /\ res.obs[i].key = res.obs[j].key
                   /\ res.obs[i].record.timestamp = res.obs[j].record.timestamp) =>
                      \E m \in DOMAIN records, n \in DOMAIN records :
                          /\ m < n
                          /\ records[m] = res.obs[i].record
                          /\ records[n] = res.obs[j].record
                          /\ records[m].id = records[n].id

\* CoinGecko and the mirror reported different rates for BTC_USD in the same
\* second: two records, one id.
C31_Witness ==
    LET records == RecordsIn(fs[HISTORY_FILE])
    IN  /\ res.kind = "ok" /\ res.errors = <<>> /\ Len(res.obs) = 2
        /\ res.obs[1].record.timestamp = res.obs[2].record.timestamp
        /\ Len(records) = Len(RecordsIn(res.hist0)) + 2
        /\ records[Len(records) - 1].id = records[Len(records)].id
        /\ records[Len(records) - 1].rate # records[Len(records)].rate
        /\ records[Len(records) - 1].source # records[Len(records)].source

\* The documents the two savers were given.
SaverDocs ==
    {JsonFile(race.procs[p].data) :
        p \in {q \in Procs : race.procs[q].handle # "none"}}

\* C32: while two cycles save the cache through the same temporary path, the
\* cache file is at every moment as it was found or a complete document that
\* one of the savers was given.
C32_NeverTorn ==
    \/ fs[PARSER_RATES_FILE] = AbsentFile
    \/ fs[PARSER_RATES_FILE] = JsonFile(SeedCache)
    \/ fs[PARSER_RATES_FILE] \in SaverDocs

\* C33: the stub has a rate for every ordered pair of distinct registered
\* currencies, and a get_rate call for such a pair that could read the cache
\* file returned a rate taken from the cache or from the stub: it did not
\* raise ApiRequestError and did not derive the rate from the reverse entry.
C33_ResolveIsTotal ==
    /\ \A a \in Registry, b \in Registry :
          a # b => /\ GetRateFromStub(a, b).ok
                   /\ GetRateFromStub(a, b).rate[1] > 0
    /\ (/\ last.kind # "none"
         /\ last.from \in Registry /\ last.to \in Registry
         /\ last.from # last.to
         /\ last.kind # "JSONDecodeError") =>
            /\ last.kind = "ok"
            /\ last.via \in {"cache", "stub"}
            /\ last.rate[1] > 0

\* get_rate("USD", "btc") found the reverse entry BTC_USD fresh in the cache
\* and no USD_BTC, and took the rate from the stub.
C33_Witness ==
    /\ last.kind = "ok" /\ last.via = "stub"
    /\ last.from = "USD" /\ last.to = "BTC"
    /\ "BTC_USD" \in DOMAIN last.loaded
    /\ "USD_BTC" \notin DOMAIN last.loaded
    /\ IsRateFresh(last.loaded["BTC_USD"].updated_at)
    /\ last.rate = GetRateFromStub("USD", "BTC").rate

\* The sources of the clients that have an entry in errors.
FailedSources == {SourceOf(c) : c \in FailedClients}

\* C34: in a returned result no pair of all_rates, no source of the sources
\* map and no entry the cycle wrote in the cache comes from a client that has
\* an entry in errors.
C34_FailedSourceContributesNothing ==
    res.kind = "ok" =>
        /\ \A i \in DOMAIN res.obs :
              res.obs[i].client \in FailedClients =>
                  res.obs[i].key \notin DOMAIN res.all_rates
        /\ \A k \in DOMAIN res.sources : res.sources[k] \notin FailedSources
        /\ \A k \in DOMAIN CachePairs :
              CachePairs[k].updated_at = res.cache_timestamp =>
                  CachePairs[k].source \notin FailedSources

\* The records the ended cycle appended to the history.
AppendedRecords ==
    LET records == RecordsIn(fs[HISTORY_FILE])
        before == Len(RecordsIn(res.hist0))
    IN  {records[n] : n \in {m \in DOMAIN records : m > before}}

\* The pair keys whose entry in the cache file the ended cycle wrote.
WrittenKeys ==
    {k \in DOMAIN res.all_rates :
        ShouldUpdate(PairsBefore, k, res.cache_timestamp)}

\* C35: when run_update has returned, every entry it wrote in the cache has a
\* record that the same cycle appended to the history, with the same pair,
\* rate and source.
C35_HistoryCoversCache ==
    res.kind = "ok" =>
        \A k \in WrittenKeys :
            \E r \in AppendedRecords :
                /\ RateKey(r.from_currency, r.to_currency) = k
                /\ r.rate = CachePairs[k].rate
                /\ r.source = CachePairs[k].source

\* C36: the value a client stores under X_Y is the number of units of Y for
\* one unit of X. CoinGecko quotes the USD price of one coin. ExchangeRate-API,
\* asked for latest/USD, quotes the units of each currency for one USD, so the
\* value under EUR_USD is the inverse of the figure quoted for EUR.
C36_KeysAreBaseQuote ==
    \A i \in DOMAIN up.obs :
        up.obs[i].quoted[1] > 0 =>
            /\ up.obs[i].client = "CoinGeckoClient" =>
                   up.obs[i].record.rate = up.obs[i].quoted
            /\ up.obs[i].client = "ExchangeRateApiClient" =>
                   up.obs[i].record.rate = FracInv(up.obs[i].quoted)

\* C37: the balance of every wallet is at least 0; a withdraw of more than
\* the balance raises InsufficientFundsError, a deposit or a withdraw of an
\* amount that is not positive raises ValueError, and a call that raises
\* leaves the balance as it was.
C37_BalanceNeverNegative ==
    /\ \A c \in DOMAIN pf.wallets : FLe(Num(0), pf.wallets[c])
    /\ (pf.wcall.op = "withdraw" /\ FGt(pf.wcall.amount, pf.wcall.before)) =>
          pf.wcall.raised = "InsufficientFundsError"
    /\ (pf.wcall.op # "none" /\ ~FGt(pf.wcall.amount, Num(0))) =>
          pf.wcall.raised = "ValueError"
    /\ pf.wcall.raised # "" => pf.wcall.after = pf.wcall.before

\* C38: when sell_currency, called with a finite amount and a readable
\* portfolio file, has raised because the rates file could not be read, no
\* rate was found, the funds were insufficient or the currency is unknown,
\* the balances in memory and the portfolio file are what they were before
\* the call.
C38_SellIsAllOrNothing ==
    (/\ pf.sold.kind \in {"JSONDecodeError", "ValueError",
                          "InsufficientFundsError", "CurrencyNotFoundError"}
     /\ pf.sold.file0.st = "ok"
     /\ ~pf.sold.amount.nan) =>
        /\ pf.sold.mem1 = pf.sold.mem0
        /\ pf.sold.file1 = pf.sold.file0

====
